---- MODULE Spec2Model ----
(***************************************************************************)
(* A model of SnapshotStreamWriter                                         *)
(* (tensorflow/core/data/service/snapshot/snapshot_stream_writer.cc).      *)
(*                                                                         *)
(* The state is the three directories of a stream (committed chunks,       *)
(* uncommitted chunks, checkpoints), the task iterator, the writer's       *)
(* members, the position of the snapshot thread inside WriteSnapshotFn and  *)
(* the calls of the controlling thread (Cancel, Wait).  Every call into    *)
(* Env or into the iterator may fail; the process may crash between any    *)
(* two steps of the snapshot thread and a new writer is then constructed   *)
(* on the directories as they are.                                         *)
(***************************************************************************)
EXTENDS Integers, Sequences, FiniteSets, TLC

\* ------------------------------------------------------------- bounds
\* Longest element sequence the task iterator produces.
MaxElements == 2
\* Largest EstimatedSizeBytes of one element.
MaxElementSize == 2
\* Number of writers constructed on the same directories after the first.
MaxRestarts == 2
\* Number of Wait() calls made on one writer.
MaxWaits == 2
\* Largest file index that an externally prepared directory holds.
MaxIndex == 2

\* params_.max_chunk_size_bytes of the writers of this model.
max_chunk_size_bytes == 2

\* The number of chunks an endless source is followed for.
MaxChunks == 2

\* ------------------------------------------------------------- status
OkStatus == "OK"
Cancelled == "CANCELLED"
Internal == "INTERNAL"
FilesystemError == "FILESYSTEM_ERROR"
SourceError == "SOURCE_ERROR"

\* ------------------------------------------------------------- files
\* A file name is <lead><prefix>_<tail>: lead is TRUE when other text comes
\* before the prefix, idx is the number the trailing digits spell, or -1
\* when the text after the underscore is not a run of digits.
FileName(lead, prefix, idx) == [lead |-> lead, prefix |-> prefix, idx |-> idx]

\* absl::StrCat("chunk_", chunk_index) under a directory.
ChunkFileName(chunk_index) == FileName(FALSE, "chunk", chunk_index)

\* absl::StrCat("checkpoint_", chunk_index) under checkpoints_directory_.
CheckpointPath(chunk_index) == FileName(FALSE, "checkpoint", chunk_index)

\* RE2::PartialMatch(filename, prefix + "_(\d+)$"): the pattern is anchored at
\* the end of the name only.  -1 stands for the internal error.
GetFileIndex(filename, prefix) ==
    IF filename.prefix = prefix /\ filename.idx >= 0 THEN filename.idx ELSE -1

\* A directory maps the names of its files to their contents.
EmptyDir == [n \in {} |-> <<>>]

PutFile(dir, name, data) ==
    [n \in (DOMAIN dir) \cup {name} |-> IF n = name THEN data ELSE dir[n]]

DeleteFile(dir, name) == [n \in (DOMAIN dir) \ {name} |-> dir[n]]

Max(a, b) == IF a >= b THEN a ELSE b

SetMax(S) == CHOOSE x \in S : \A y \in S : y <= x

VARIABLES
    committed_dir,        \* <root>/committed_chunks
    uncommitted_dir,      \* <root>/streams/<i>/uncommitted_chunks
    checkpoints_dir,      \* <root>/streams/<i>/checkpoints
    elements,             \* the estimated sizes of the source's elements
    iterator_pos,         \* number of elements the iterator has produced
    chunk_index_,
    chunk_size_bytes_,
    end_of_sequence_,
    status_,
    pc,                   \* where the snapshot thread is
    ret,                  \* the status WriteSnapshotFn returns
    checkpoint_index,     \* Restore's local
    pending,              \* the names a directory loop has still to visit
    should_save,          \* what ShouldSave() answered in this CommitChunk
    waiting,              \* a Wait() call is blocked on the thread
    wait_results,         \* what the Wait() calls of this writer returned
    cancel_returned,      \* Cancel() has returned on this writer
    cancel_in_chunk,      \* Cancel() was called while a chunk was being written
    commit_events,        \* number of renames into the committed directory
    restarts,             \* number of writers constructed after the first
    startup_uncommitted,  \* the uncommitted directory the writer started on
    recovered,            \* Restore() has returned ok in this writer
    clean                 \* no failure, no cancel, no crash before a commit

vars == <<committed_dir, uncommitted_dir, checkpoints_dir, elements,
          iterator_pos, chunk_index_, chunk_size_bytes_, end_of_sequence_,
          status_, pc, ret, checkpoint_index, pending, should_save, waiting,
          wait_results, cancel_returned, cancel_in_chunk, commit_events,
          restarts, startup_uncommitted, recovered, clean>>

dirs == <<committed_dir, uncommitted_dir, checkpoints_dir>>
members == <<chunk_index_, chunk_size_bytes_, end_of_sequence_>>
control == <<waiting, wait_results, cancel_returned, cancel_in_chunk>>
history == <<commit_events, restarts, startup_uncommitted, recovered>>

\* The element sequences of the model: every sequence of sizes up to the bounds.
ElementSequences ==
    UNION {[1..n -> 1..MaxElementSize] : n \in 0..MaxElements}

\* ------------------------------------------------------------- writer
\* The members of a writer right after its constructor, with a fresh iterator.
NewWriter ==
    /\ iterator_pos = 0
    /\ chunk_index_ = 0
    /\ chunk_size_bytes_ = 0
    /\ end_of_sequence_ = FALSE
    /\ status_ = OkStatus
    /\ pc = "InitializeDirectories"
    /\ ret = OkStatus
    /\ checkpoint_index = -1
    /\ pending = {}
    /\ should_save = FALSE
    /\ recovered = FALSE
    /\ waiting = FALSE
    /\ wait_results = <<>>
    /\ cancel_returned = FALSE
    /\ cancel_in_chunk = FALSE

Init ==
    /\ committed_dir = EmptyDir
    /\ uncommitted_dir = EmptyDir
    /\ checkpoints_dir = EmptyDir
    /\ elements \in ElementSequences
    /\ NewWriter
    /\ commit_events = 0
    /\ restarts = 0
    /\ startup_uncommitted = uncommitted_dir
    /\ clean = TRUE

\* TF_RETURN_IF_ERROR with a failed status: WriteSnapshotFn returns it.
ReturnError(status) ==
    /\ pc' = "Finish"
    /\ ret' = status
    /\ clean' = FALSE

\* A step of the snapshot thread that raises no error.
Goto(label) ==
    /\ pc' = label
    /\ UNCHANGED <<ret, clean>>

\* ------------------------------------------------------------- startup
InitializeDirectories ==
    /\ pc = "InitializeDirectories"
    /\ \/ Goto("Restore")
       \/ ReturnError(FilesystemError)
    /\ UNCHANGED <<dirs, elements, iterator_pos, members, status_,
                   checkpoint_index, pending, should_save, control, history>>

\* LastCheckpointIndex: NotFound for an empty directory, the internal error of
\* GetFileIndex for a name that does not match, else the largest index.
\* Mutant: an empty checkpoints directory is reported as an internal error.
LastCheckpointIndexEmptyIsInternal ==
    LET names == DOMAIN checkpoints_dir
        indices == {GetFileIndex(n, "checkpoint") : n \in names}
    IN  IF names = {} \/ -1 \in indices
        THEN [status |-> Internal, index |-> -1]
        ELSE [status |-> OkStatus, index |-> Max(0, SetMax(indices))]

LastCheckpointIndex ==
    LET names == DOMAIN checkpoints_dir
        indices == {GetFileIndex(n, "checkpoint") : n \in names}
    IN  IF names = {} THEN [status |-> "NOT_FOUND", index |-> -1]
        ELSE IF -1 \in indices THEN [status |-> Internal, index |-> -1]
        ELSE [status |-> OkStatus, index |-> Max(0, SetMax(indices))]

Restore ==
    /\ pc = "Restore"
    /\ LET last == LastCheckpointIndex
           path == CheckpointPath(last.index)
       IN  \/ /\ ReturnError(FilesystemError)
              /\ UNCHANGED <<iterator_pos, checkpoint_index, recovered>>
           \/ /\ last.status = "NOT_FOUND"
              /\ recovered' = TRUE
              /\ Goto("ShouldWriteChunk")
              /\ UNCHANGED <<iterator_pos, checkpoint_index>>
           \/ /\ last.status = Internal
              /\ ReturnError(Internal)
              /\ UNCHANGED <<iterator_pos, checkpoint_index, recovered>>
           \/ /\ last.status = OkStatus
              /\ path \in DOMAIN checkpoints_dir
              /\ Len(checkpoints_dir[path]) # 1
              /\ ReturnError(Internal)
              /\ UNCHANGED <<iterator_pos, checkpoint_index, recovered>>
           \/ /\ last.status = OkStatus
              /\ path \in DOMAIN checkpoints_dir
              /\ Len(checkpoints_dir[path]) = 1
              /\ \/ /\ ReturnError(SourceError)
                    /\ UNCHANGED <<iterator_pos, checkpoint_index>>
                 \/ /\ iterator_pos' = checkpoints_dir[path][1]
                    /\ checkpoint_index' = last.index
                    /\ Goto("SyncCheckpointWithChunks")
              /\ UNCHANGED recovered
    /\ UNCHANGED <<dirs, elements, members, status_, pending, should_save,
                   control, commit_events, restarts, startup_uncommitted>>

\* Mutant: the chunk at the checkpoint's own index is deleted, not committed.
WrittenBeforeCheckpointStrict(chunk_index, last_checkpoint) ==
    chunk_index < last_checkpoint

\* The test of SyncCheckpointWithChunks: commit the chunk, else delete it.
WrittenBeforeCheckpoint(chunk_index, last_checkpoint) ==
    chunk_index <= last_checkpoint

\* Mutant: the reconciliation looks at no file of the uncommitted directory.
SyncCheckpointWithChunksEmpty ==
    /\ pc = "SyncCheckpointWithChunks"
    /\ pending' = {}
    /\ Goto("SyncLoop")
    /\ UNCHANGED <<dirs, elements, iterator_pos, members, status_,
                   checkpoint_index, should_save, control, history>>

SyncCheckpointWithChunks ==
    /\ pc = "SyncCheckpointWithChunks"
    /\ \/ /\ pending' = DOMAIN uncommitted_dir
          /\ Goto("SyncLoop")
       \/ /\ ReturnError(FilesystemError)
          /\ UNCHANGED pending
    /\ UNCHANGED <<dirs, elements, iterator_pos, members, status_,
                   checkpoint_index, should_save, control, history>>

\* One iteration of the loop of SyncCheckpointWithChunks.
SyncChunk ==
    /\ pc = "SyncLoop"
    /\ \E name \in pending :
         LET index == GetFileIndex(name, "chunk") IN
         \/ /\ index = -1
            /\ ReturnError(Internal)
            /\ UNCHANGED <<dirs, pending, history>>
         \/ /\ index # -1
            /\ ReturnError(FilesystemError)
            /\ UNCHANGED <<dirs, pending, history>>
         \/ /\ index # -1
            /\ WrittenBeforeCheckpoint(index, checkpoint_index)
            /\ committed_dir' = PutFile(committed_dir, name, uncommitted_dir[name])
            /\ uncommitted_dir' = DeleteFile(uncommitted_dir, name)
            /\ commit_events' = commit_events + 1
            /\ pending' = pending \ {name}
            /\ Goto("SyncLoop")
            /\ UNCHANGED <<checkpoints_dir, restarts, startup_uncommitted, recovered>>
         \/ /\ index # -1
            /\ ~WrittenBeforeCheckpoint(index, checkpoint_index)
            /\ uncommitted_dir' = DeleteFile(uncommitted_dir, name)
            /\ pending' = pending \ {name}
            /\ Goto("SyncLoop")
            /\ UNCHANGED <<committed_dir, checkpoints_dir, history>>
    /\ UNCHANGED <<elements, iterator_pos, members, status_, checkpoint_index,
                   should_save, control>>

\* Mutant: the writer resumes at the checkpoint's own index.
NextChunkIndexSame(last_checkpoint) == last_checkpoint

\* The chunk index Restore resumes at.
NextChunkIndex(last_checkpoint) == last_checkpoint + 1

\* The end of Restore: chunk_index_ = *checkpoint_index + 1.
RestoreDone ==
    /\ pc = "SyncLoop"
    /\ pending = {}
    /\ chunk_index_' = NextChunkIndex(checkpoint_index)
    /\ recovered' = TRUE
    /\ Goto("ShouldWriteChunk")
    /\ UNCHANGED <<dirs, elements, iterator_pos, chunk_size_bytes_,
                   end_of_sequence_, status_, checkpoint_index, pending,
                   should_save, control, commit_events, restarts,
                   startup_uncommitted>>

\* ------------------------------------------------------------- write loop
\* Mutant: the loop goes on until the end of the source, whatever status_ is.
ShouldWriteChunkIgnoringStatus == ~end_of_sequence_

\* The condition of ShouldWriteChunk() and of ShouldSave(), read under mu_.
ShouldWriteChunk == ~end_of_sequence_ /\ status_ = OkStatus

ShouldSave == ~end_of_sequence_ /\ status_ = OkStatus

\* Mutant: a chunk that has reached max_chunk_size_bytes takes one more element.
ShouldWriteRecordInclusive ==
    /\ chunk_size_bytes_ <= max_chunk_size_bytes
    /\ ~end_of_sequence_
    /\ status_ = OkStatus

ShouldWriteRecord ==
    /\ chunk_size_bytes_ < max_chunk_size_bytes
    /\ ~end_of_sequence_
    /\ status_ = OkStatus

\* while (ShouldWriteChunk()) in WriteSnapshotFn.
WriteSnapshotFnLoop ==
    /\ pc = "ShouldWriteChunk"
    /\ IF ShouldWriteChunk THEN Goto("WriteChunk") ELSE Goto("Return")
    /\ UNCHANGED <<dirs, elements, iterator_pos, members, status_,
                   checkpoint_index, pending, should_save, control, history>>

\* WriteChunk up to writer.Initialize: the chunk file is opened as a new file.
WriteChunk ==
    /\ pc = "WriteChunk"
    /\ \/ /\ uncommitted_dir' =
                PutFile(uncommitted_dir, ChunkFileName(chunk_index_), <<>>)
          /\ Goto("ShouldWriteRecord")
       \/ /\ ReturnError(FilesystemError)
          /\ UNCHANGED uncommitted_dir
    /\ UNCHANGED <<committed_dir, checkpoints_dir, elements, iterator_pos,
                   members, status_, checkpoint_index, pending, should_save,
                   control, history>>

\* while (ShouldWriteRecord()) in WriteChunk.
WriteChunkLoop ==
    /\ pc = "ShouldWriteRecord"
    /\ IF ShouldWriteRecord THEN Goto("WriteRecord") ELSE Goto("CloseChunk")
    /\ UNCHANGED <<dirs, elements, iterator_pos, members, status_,
                   checkpoint_index, pending, should_save, control, history>>

\* EstimatedSizeBytes of the element the iterator produces next.
EstimatedSizeBytes(position) == elements[position]

WriteRecord ==
    /\ pc = "WriteRecord"
    /\ \/ \* iterator_->GetNext fails
          /\ ReturnError(SourceError)
          /\ UNCHANGED <<uncommitted_dir, iterator_pos, members>>
       \/ \* end of sequence: writer.Close()
          /\ iterator_pos = Len(elements)
          /\ end_of_sequence_' = TRUE
          /\ \/ Goto("ShouldWriteRecord")
             \/ ReturnError(FilesystemError)
          /\ UNCHANGED <<uncommitted_dir, iterator_pos, chunk_index_,
                         chunk_size_bytes_>>
       \/ \* an element: writer.WriteTensors fails
          /\ iterator_pos < Len(elements)
          /\ iterator_pos' = iterator_pos + 1
          /\ ReturnError(FilesystemError)
          /\ UNCHANGED <<uncommitted_dir, members>>
       \/ \* an element: written
          /\ iterator_pos < Len(elements)
          /\ iterator_pos' = iterator_pos + 1
          /\ uncommitted_dir' =
                [uncommitted_dir EXCEPT ![ChunkFileName(chunk_index_)] =
                    Append(@, iterator_pos + 1)]
          /\ chunk_size_bytes_' =
                chunk_size_bytes_ + EstimatedSizeBytes(iterator_pos + 1)
          /\ Goto("ShouldWriteRecord")
          /\ UNCHANGED <<chunk_index_, end_of_sequence_>>
    /\ UNCHANGED <<committed_dir, checkpoints_dir, elements, status_,
                   checkpoint_index, pending, should_save, control, history>>

\* writer.Close() at the end of WriteChunk.
WriteChunkClose ==
    /\ pc = "CloseChunk"
    /\ \/ Goto("CommitChunk")
       \/ ReturnError(FilesystemError)
    /\ UNCHANGED <<dirs, elements, iterator_pos, members, status_,
                   checkpoint_index, pending, should_save, control, history>>

\* if (ShouldSave()) in CommitChunk.
CommitChunk ==
    /\ pc = "CommitChunk"
    /\ should_save' = ShouldSave
    /\ IF ShouldSave THEN Goto("Save") ELSE Goto("RenameChunk")
    /\ UNCHANGED <<dirs, elements, iterator_pos, members, status_,
                   checkpoint_index, pending, control, history>>

\* Save up to the rename of the temporary file to checkpoint_<chunk_index_>.
Save ==
    /\ pc = "Save"
    /\ \/ /\ checkpoints_dir' =
                PutFile(checkpoints_dir, CheckpointPath(chunk_index_),
                        <<iterator_pos>>)
          /\ Goto("DeleteOutdatedCheckpoints")
       \/ /\ ReturnError(FilesystemError)
          /\ UNCHANGED checkpoints_dir
       \/ /\ ReturnError(SourceError)
          /\ UNCHANGED checkpoints_dir
    /\ UNCHANGED <<committed_dir, uncommitted_dir, elements, iterator_pos,
                   members, status_, checkpoint_index, pending, should_save,
                   control, history>>

\* Mutant: the checkpoint just written is pruned with the older ones.
OutdatedOrCurrent(checkpoint, chunk_index) == checkpoint <= chunk_index

\* Mutant: the checkpoint before the one just written is kept.
OutdatedButLast(checkpoint, chunk_index) == checkpoint < chunk_index - 1

\* The test of DeleteOutdatedCheckpoints.
Outdated(checkpoint, chunk_index) == checkpoint < chunk_index

DeleteOutdatedCheckpoints ==
    /\ pc = "DeleteOutdatedCheckpoints"
    /\ \/ /\ pending' = DOMAIN checkpoints_dir
          /\ Goto("DeleteLoop")
       \/ /\ ReturnError(FilesystemError)
          /\ UNCHANGED pending
    /\ UNCHANGED <<dirs, elements, iterator_pos, members, status_,
                   checkpoint_index, should_save, control, history>>

\* One iteration of the loop of DeleteOutdatedCheckpoints.
DeleteCheckpoint ==
    /\ pc = "DeleteLoop"
    /\ \E name \in pending :
         LET index == GetFileIndex(name, "checkpoint") IN
         \/ /\ index = -1
            /\ ReturnError(Internal)
            /\ UNCHANGED <<checkpoints_dir, pending>>
         \/ /\ index # -1
            /\ Outdated(index, chunk_index_)
            /\ ReturnError(FilesystemError)
            /\ UNCHANGED <<checkpoints_dir, pending>>
         \/ /\ index # -1
            /\ Outdated(index, chunk_index_)
            /\ checkpoints_dir' = DeleteFile(checkpoints_dir, name)
            /\ pending' = pending \ {name}
            /\ Goto("DeleteLoop")
         \/ /\ index # -1
            /\ ~Outdated(index, chunk_index_)
            /\ pending' = pending \ {name}
            /\ Goto("DeleteLoop")
            /\ UNCHANGED checkpoints_dir
    /\ UNCHANGED <<committed_dir, uncommitted_dir, elements, iterator_pos,
                   members, status_, checkpoint_index, should_save, control,
                   history>>

\* Save returns the status of DeleteOutdatedCheckpoints.
SaveDone ==
    /\ pc = "DeleteLoop"
    /\ pending = {}
    /\ Goto("RenameChunk")
    /\ UNCHANGED <<dirs, elements, iterator_pos, members, status_,
                   checkpoint_index, pending, should_save, control, history>>

\* The rename of CommitChunk, ++chunk_index_ and chunk_size_bytes_ = 0.
RenameChunk ==
    /\ pc = "RenameChunk"
    /\ LET name == ChunkFileName(chunk_index_) IN
       \/ /\ committed_dir' = PutFile(committed_dir, name, uncommitted_dir[name])
          /\ uncommitted_dir' = DeleteFile(uncommitted_dir, name)
          /\ chunk_index_' = chunk_index_ + 1
          /\ chunk_size_bytes_' = 0
          /\ commit_events' = commit_events + 1
          /\ Goto("ShouldWriteChunk")
          /\ UNCHANGED <<end_of_sequence_, restarts, startup_uncommitted,
                         recovered>>
       \/ /\ ReturnError(FilesystemError)
          /\ UNCHANGED <<committed_dir, uncommitted_dir, members, history>>
    /\ UNCHANGED <<checkpoints_dir, elements, iterator_pos, status_,
                   checkpoint_index, pending, should_save, control>>

\* return status_ at the end of WriteSnapshotFn, read under mu_.
WriteSnapshotFnReturn ==
    /\ pc = "Return"
    /\ ret' = status_
    /\ pc' = "Finish"
    /\ UNCHANGED <<dirs, elements, iterator_pos, members, status_,
                   checkpoint_index, pending, should_save, control, history,
                   clean>>

\* Mutant: snapshot_fn drops the status WriteSnapshotFn returns.
RunSnapshotThreadDropsStatus ==
    /\ pc = "Finish"
    /\ pc' = "Done"
    /\ UNCHANGED <<dirs, elements, iterator_pos, members, status_, ret,
                   checkpoint_index, pending, should_save, control, history,
                   clean>>

\* The end of snapshot_fn: a status that is not ok is stored in status_.
RunSnapshotThread ==
    /\ pc = "Finish"
    /\ status_' = IF ret # OkStatus THEN ret ELSE status_
    /\ pc' = "Done"
    /\ UNCHANGED <<dirs, elements, iterator_pos, members, ret,
                   checkpoint_index, pending, should_save, control, history,
                   clean>>

\* ------------------------------------------------------------- control
\* Where the snapshot thread is while it writes a chunk.
InChunk ==
    pc \in {"ShouldWriteRecord", "WriteRecord", "CloseChunk", "CommitChunk",
            "Save", "DeleteOutdatedCheckpoints", "DeleteLoop", "RenameChunk"}

\* Mutant: a cancellation after the end of the source is dropped.
CancelUnlessEndOfSequence ==
    /\ status_' = IF end_of_sequence_ THEN status_ ELSE Cancelled
    /\ cancel_returned' = TRUE
    /\ cancel_in_chunk' = (cancel_in_chunk \/ InChunk)
    /\ clean' = FALSE
    /\ UNCHANGED <<dirs, elements, iterator_pos, members, pc, ret,
                   checkpoint_index, pending, should_save, waiting,
                   wait_results, history>>

Cancel ==
    /\ status_' = Cancelled
    /\ cancel_returned' = TRUE
    /\ cancel_in_chunk' = (cancel_in_chunk \/ InChunk)
    /\ clean' = FALSE
    /\ UNCHANGED <<dirs, elements, iterator_pos, members, pc, ret,
                   checkpoint_index, pending, should_save, waiting,
                   wait_results, history>>

\* Wait() is called: snapshot_thread_.reset() joins the thread.
WaitCall ==
    /\ ~waiting
    /\ Len(wait_results) < MaxWaits
    /\ waiting' = TRUE
    /\ UNCHANGED <<dirs, elements, iterator_pos, members, status_, pc, ret,
                   checkpoint_index, pending, should_save, wait_results,
                   cancel_returned, cancel_in_chunk, history, clean>>

\* Deleting the Thread object blocks until snapshot_fn has returned.
ThreadJoined == pc = "Done"

\* Mutant: Wait() returns status_ without resetting snapshot_thread_.
WaitWithoutJoin ==
    /\ waiting
    /\ wait_results' = Append(wait_results, status_)
    /\ waiting' = FALSE
    /\ UNCHANGED <<dirs, elements, iterator_pos, members, status_, pc, ret,
                   checkpoint_index, pending, should_save, cancel_returned,
                   cancel_in_chunk, history, clean>>

\* Wait() returns status_ once the thread has ended.
Wait ==
    /\ waiting
    /\ ThreadJoined
    /\ wait_results' = Append(wait_results, status_)
    /\ waiting' = FALSE
    /\ UNCHANGED <<dirs, elements, iterator_pos, members, status_, pc, ret,
                   checkpoint_index, pending, should_save, cancel_returned,
                   cancel_in_chunk, history, clean>>

\* The process ends (a crash at any point, or after the thread has ended) and
\* a new writer with a new iterator is constructed on the same directories.
Restart ==
    /\ restarts < MaxRestarts
    /\ restarts' = restarts + 1
    /\ iterator_pos' = 0
    /\ chunk_index_' = 0
    /\ chunk_size_bytes_' = 0
    /\ end_of_sequence_' = FALSE
    /\ status_' = OkStatus
    /\ pc' = "InitializeDirectories"
    /\ ret' = OkStatus
    /\ checkpoint_index' = -1
    /\ pending' = {}
    /\ should_save' = FALSE
    /\ recovered' = FALSE
    /\ startup_uncommitted' = uncommitted_dir
    /\ waiting' = FALSE
    /\ wait_results' = <<>>
    /\ cancel_returned' = FALSE
    /\ cancel_in_chunk' = FALSE
    /\ clean' = (clean /\ DOMAIN committed_dir # {})
    /\ UNCHANGED <<dirs, elements, commit_events>>

Next ==
    \/ InitializeDirectories
    \/ Restore
    \/ SyncCheckpointWithChunks
    \/ SyncChunk
    \/ RestoreDone
    \/ WriteSnapshotFnLoop
    \/ WriteChunk
    \/ WriteChunkLoop
    \/ WriteRecord
    \/ WriteChunkClose
    \/ CommitChunk
    \/ Save
    \/ DeleteOutdatedCheckpoints
    \/ DeleteCheckpoint
    \/ SaveDone
    \/ RenameChunk
    \/ WriteSnapshotFnReturn
    \/ RunSnapshotThread
    \/ Cancel
    \/ WaitCall
    \/ Wait
    \/ Restart

Spec == Init /\ [][Next]_vars

\* ------------------------------------------------------------- recovery
\* Startup on directories prepared by anything that ran before (an earlier
\* writer, or something else writing into the stream's directories): every
\* set of chunk and checkpoint files with indices up to MaxIndex, names with
\* leading text or without digits, and checkpoint files that do not hold
\* exactly one tensor.
RecoveryChunkNames ==
    {ChunkFileName(i) : i \in 0..MaxIndex}
        \cup {FileName(TRUE, "chunk", MaxIndex), FileName(FALSE, "chunk", -1)}

RecoveryCheckpointNames ==
    {CheckpointPath(i) : i \in 0..MaxIndex}
        \cup {FileName(TRUE, "checkpoint", MaxIndex),
              FileName(FALSE, "checkpoint", -1)}

InitRecovery ==
    /\ \E n \in 0..(MaxIndex + 1) :
          committed_dir = [c \in {ChunkFileName(i) : i \in 0..(n - 1)} |-> <<>>]
    /\ \E names \in SUBSET RecoveryChunkNames :
          uncommitted_dir = [c \in names |-> <<1>>]
    /\ \E names \in SUBSET RecoveryCheckpointNames :
          checkpoints_dir \in [names -> {<<0>>, <<>>}]
    /\ elements = [i \in 1..MaxElements |-> 1]
    /\ NewWriter
    /\ commit_events = 0
    /\ restarts = 0
    /\ startup_uncommitted = uncommitted_dir
    /\ clean = TRUE

NextRecovery ==
    \/ InitializeDirectories
    \/ Restore
    \/ SyncCheckpointWithChunks
    \/ SyncChunk
    \/ RestoreDone
    \/ WriteSnapshotFnLoop
    \/ RunSnapshotThread

SpecRecovery == InitRecovery /\ [][NextRecovery]_vars

\* ------------------------------------------------------------- claims
\* The chunk WriteChunk writes from iterator position `position`: elements are
\* pulled while the accumulated size is below the limit and the source has not
\* reported its end.
RECURSIVE PullChunk(_, _, _)
PullChunk(position, size, chunk) ==
    IF size >= max_chunk_size_bytes
    THEN [chunk |-> chunk, position |-> position, end_of_sequence |-> FALSE]
    ELSE IF position = Len(elements)
    THEN [chunk |-> chunk, position |-> position, end_of_sequence |-> TRUE]
    ELSE PullChunk(position + 1, size + EstimatedSizeBytes(position + 1),
                   Append(chunk, position + 1))

\* The committed directory a single writer leaves when nothing fails, nothing
\* crashes and nobody cancels: chunks are written until the end of the source.
RECURSIVE RunFrom(_, _, _)
RunFrom(position, index, dir) ==
    LET pulled == PullChunk(position, 0, <<>>)
        next == PutFile(dir, ChunkFileName(index), pulled.chunk)
    IN  IF pulled.end_of_sequence THEN next
        ELSE RunFrom(pulled.position, index + 1, next)

UninterruptedRun == RunFrom(0, 0, EmptyDir)

\* C1: a run whose crashes all came after a chunk commit, restarted on the
\* persisted directories and run to completion, leaves the committed chunks
\* (index and content) of the run that never crashed.
CrashResumeEquivalence ==
    (pc = "Done" /\ clean) => committed_dir = UninterruptedRun

\* C1 witness: a restarted writer found a checkpoint after a crash that left a
\* chunk uncommitted, and has finished.
CrashResumeWitness ==
    /\ pc = "Done"
    /\ clean
    /\ restarts > 0
    /\ checkpoint_index >= 0
    /\ startup_uncommitted # EmptyDir
    /\ Cardinality(DOMAIN committed_dir) >= 2

\* The chunk indices of the well-formed chunk files of a directory.
ChunkIndices(dir) ==
    {n.idx : n \in {m \in DOMAIN dir : m = ChunkFileName(m.idx)}}

\* C2: the committed directory always holds chunk_0 .. chunk_<n-1>, and every
\* rename into it (by CommitChunk or by SyncCheckpointWithChunks) committed
\* the next index: there were exactly n commits for the n committed chunks.
MonotonicCommitOrder ==
    /\ DOMAIN committed_dir =
          {ChunkFileName(i) : i \in 0..(Cardinality(DOMAIN committed_dir) - 1)}
    /\ commit_events = Cardinality(DOMAIN committed_dir)

\* C3: a committed chunk is never replaced, rewritten or removed, and no
\* rename targets a committed path that already exists (every commit adds a
\* name to the committed directory).
CommittedChunksImmutable ==
    [][/\ \A n \in DOMAIN committed_dir :
             /\ n \in DOMAIN committed_dir'
             /\ committed_dir'[n] = committed_dir[n]
       /\ commit_events' # commit_events =>
             DOMAIN committed_dir' # DOMAIN committed_dir]_vars

\* C5: when startup found a latest checkpoint k and Restore returned ok, every
\* chunk_<i> the uncommitted directory held is in the committed directory
\* (with its content) if i <= k and is gone if i > k, the uncommitted
\* directory is empty and chunk_index_ = k + 1.
ReconciliationCorrect ==
    (recovered /\ checkpoint_index >= 0) =>
        /\ checkpoint_index = LastCheckpointIndex.index
        /\ \A i \in ChunkIndices(startup_uncommitted) :
              IF i <= checkpoint_index
              THEN /\ ChunkFileName(i) \in DOMAIN committed_dir
                   /\ committed_dir[ChunkFileName(i)] =
                          startup_uncommitted[ChunkFileName(i)]
              ELSE /\ ChunkFileName(i) \notin DOMAIN uncommitted_dir
                   /\ ChunkFileName(i) \in DOMAIN committed_dir =>
                          committed_dir[ChunkFileName(i)] = <<>>
        /\ uncommitted_dir = EmptyDir
        /\ chunk_index_ = checkpoint_index + 1

\* C5 witness: the shape of checkpoint_5 with chunk_3, chunk_5 and chunk_7:
\* a chunk below, one at and one above the latest checkpoint.
ReconciliationWitness ==
    /\ recovered
    /\ checkpoint_index = 1
    /\ ChunkIndices(startup_uncommitted) = {0, 1, 2}
    /\ ChunkFileName(0) \in DOMAIN committed_dir
    /\ ChunkFileName(1) \in DOMAIN committed_dir
    /\ ChunkFileName(2) \notin DOMAIN committed_dir

\* Where the thread is inside Save.
InSave == pc \in {"Save", "DeleteOutdatedCheckpoints", "DeleteLoop"}

\* C4: when ShouldSave() answered true, checkpoint_<k> is in the checkpoints
\* directory at the moment chunk_<k> is about to be renamed; and a failure
\* inside Save ends the thread with chunk_<k> not renamed and chunk_index_
\* not incremented.
CheckpointBeforeCommit ==
    /\ []((pc = "RenameChunk" /\ should_save) =>
            CheckpointPath(chunk_index_) \in DOMAIN checkpoints_dir)
    /\ [][((InSave \/ pc \in {"Finish", "Done"}) /\ pc' \in {"Finish", "Done"})
            => UNCHANGED <<committed_dir, uncommitted_dir, chunk_index_,
                           commit_events>>]_vars

\* C4 witness: chunk_<k> was committed by CommitChunk after its checkpoint.
CheckpointBeforeCommitWitness ==
    /\ pc = "ShouldWriteChunk"
    /\ should_save
    /\ chunk_index_ > 0
    /\ ChunkFileName(chunk_index_ - 1) \in DOMAIN committed_dir
    /\ CheckpointPath(chunk_index_ - 1) \in DOMAIN checkpoints_dir

\* The state right after a successful Save: the checkpoint is renamed and the
\* outdated ones are pruned.
AfterSave == pc = "RenameChunk" /\ should_save

\* C6 as stated: in every reachable state every checkpoint has an index
\* <= chunk_index_, and right after a successful Save the directory holds
\* exactly checkpoint_<chunk_index_>.
CheckpointMonotonicityAlways ==
    /\ \A n \in DOMAIN checkpoints_dir :
          GetFileIndex(n, "checkpoint") <= chunk_index_
    /\ AfterSave => DOMAIN checkpoints_dir = {CheckpointPath(chunk_index_)}

\* C6 amended: the same, in every state of a writer whose startup recovery
\* (Restore) has returned ok.
CheckpointMonotonicity ==
    recovered =>
        /\ \A n \in DOMAIN checkpoints_dir :
              GetFileIndex(n, "checkpoint") <= chunk_index_
        /\ AfterSave => DOMAIN checkpoints_dir = {CheckpointPath(chunk_index_)}

\* C6 witness: a Save has pruned an older checkpoint.
CheckpointMonotonicityWitness ==
    /\ AfterSave
    /\ chunk_index_ > 0
    /\ DOMAIN checkpoints_dir = {CheckpointPath(chunk_index_)}

\* C7 as stated: once Cancel() has returned, the thread never opens a chunk
\* file in WriteChunk.
CancelPreventsNextChunk == [][cancel_returned => ~WriteChunk]_vars

\* C7 amended: once Cancel() has returned, ShouldWriteChunk() never answers
\* true again, so the only chunk the thread can still begin is one whose
\* ShouldWriteChunk() check had passed before Cancel() took the lock.
CancelStopsWriteLoop ==
    [][(cancel_returned /\ pc = "ShouldWriteChunk") => pc' # "WriteChunk"]_vars

\* C7 witness: the write loop has seen the cancellation and left.
CancelStopsWriteLoopWitness ==
    /\ cancel_returned
    /\ pc = "Return"
    /\ ~end_of_sequence_
    /\ commit_events > 0

\* The status WriteSnapshotFn returned is an error of the loop itself.
LoopError == ret \notin {OkStatus, Cancelled}

WaitRepeatable ==
    \A i, j \in 1..Len(wait_results) : wait_results[i] = wait_results[j]

\* C10: once the thread has ended with an error of the loop, status_ holds
\* that error for good and every Wait() returns it.
ErrorIsTerminal ==
    (pc = "Done" /\ LoopError) =>
        /\ status_ = ret
        /\ \A i \in 1..Len(wait_results) : wait_results[i] = ret

\* A Wait() call returns in this step.
WaitReturns == Len(wait_results') = Len(wait_results) + 1

\* C11: whenever Wait() returns ok, the source has reported its end, no
\* operation of the loop has failed (WriteSnapshotFn returned ok) and Cancel()
\* has not been called on the writer.
WaitOkOnlyAfterCleanExhaustion ==
    [][(WaitReturns /\ status_ = OkStatus) =>
          /\ end_of_sequence_
          /\ ret = OkStatus
          /\ ~cancel_returned]_vars

\* C11 witness: a Wait() has returned ok after the last chunk was committed.
WaitOkWitness ==
    /\ Len(wait_results) > 0
    /\ wait_results[1] = OkStatus
    /\ end_of_sequence_
    /\ commit_events > 0

\* C12: at the moment Wait() returns the snapshot thread has ended, and from
\* then on the writer calls neither the source nor the file system.
WaitReturnsAfterThreadEnd ==
    /\ [][WaitReturns => pc = "Done"]_vars
    /\ [][(Len(wait_results) > 0 /\ restarts' = restarts) =>
            UNCHANGED <<dirs, iterator_pos, pc, members>>]_vars

\* C12 witness: a Wait() has returned after the thread committed a chunk and
\* ended.
WaitReturnsWitness ==
    /\ Len(wait_results) > 0
    /\ pc = "Done"
    /\ commit_events > 0
    /\ ~cancel_returned

\* A directory entry that is not exactly <prefix>_<digits>.
MalformedName(filename, prefix) ==
    filename.lead \/ filename.prefix # prefix \/ filename.idx < 0

\* C13: a name in the checkpoints directory that is not exactly
\* checkpoint_<digits> makes the startup fail before a checkpoint is read or a
\* chunk is written, and a name in the uncommitted directory that is not
\* exactly chunk_<digits> makes the reconciliation fail.
MalformedNamesFatal ==
    /\ (\E n \in DOMAIN checkpoints_dir : MalformedName(n, "checkpoint")) =>
          /\ pc \in {"InitializeDirectories", "Restore", "Finish", "Done"}
          /\ pc \in {"Finish", "Done"} => ret \in {Internal, FilesystemError}
    /\ (/\ checkpoint_index >= 0
        /\ \E n \in DOMAIN startup_uncommitted : MalformedName(n, "chunk")) =>
          ~recovered

RECURSIVE ChunkBytes(_)
\* The estimated sizes of the elements of a chunk file, added up as WriteRecord
\* adds them.
ChunkBytes(chunk) ==
    IF chunk = <<>> THEN 0
    ELSE ChunkBytes(SubSeq(chunk, 1, Len(chunk) - 1))
            + EstimatedSizeBytes(chunk[Len(chunk)])

\* C14: an element is pulled only while the accumulated size is below
\* max_chunk_size_bytes; the counter is 0 when a chunk is opened and equals the
\* size of the elements written to the open chunk; in every chunk the size
\* accumulated before its last element is below max_chunk_size_bytes.
SizeBoundary ==
    /\ pc = "WriteRecord" => chunk_size_bytes_ < max_chunk_size_bytes
    /\ pc = "WriteChunk" => chunk_size_bytes_ = 0
    /\ InChunk =>
          /\ ChunkFileName(chunk_index_) \in DOMAIN uncommitted_dir
          /\ chunk_size_bytes_ =
                ChunkBytes(uncommitted_dir[ChunkFileName(chunk_index_)])
    /\ \A dir \in {committed_dir, uncommitted_dir} : \A c \in DOMAIN dir :
          dir[c] # <<>> =>
             ChunkBytes(SubSeq(dir[c], 1, Len(dir[c]) - 1))
                < max_chunk_size_bytes

\* C14 witness: a chunk is closed whose last element took it over
\* max_chunk_size_bytes.
SizeBoundaryWitness ==
    /\ pc = "CloseChunk"
    /\ chunk_size_bytes_ > max_chunk_size_bytes
    /\ Len(uncommitted_dir[ChunkFileName(chunk_index_)]) >= 2

\* C15: from the state in which status_ became non-ok onward, the thread of
\* that writer appends no element to a chunk, saves no checkpoint and renames
\* no chunk into the committed directory.
NoWritesAfterNonOkStatus ==
    [][(status_ # OkStatus /\ restarts' = restarts) =>
          /\ \A c \in DOMAIN uncommitted_dir \cap DOMAIN uncommitted_dir' :
                Len(uncommitted_dir'[c]) <= Len(uncommitted_dir[c])
          /\ pc = "Save" => checkpoints_dir' = checkpoints_dir
          /\ commit_events' = commit_events]_vars

\* C16: after the startup recovery, while a chunk is being written, the
\* uncommitted directory holds exactly one file, chunk_<chunk_index_>; it
\* never holds two chunk files at once.
SingleUncommittedChunk ==
    /\ Cardinality(DOMAIN uncommitted_dir) <= 1
    /\ (recovered /\ InChunk) =>
          DOMAIN uncommitted_dir = {ChunkFileName(chunk_index_)}

\* C16 witness: a restarted writer that resumed from a checkpoint is writing a
\* chunk.
SingleUncommittedChunkWitness ==
    /\ recovered
    /\ pc = "WriteRecord"
    /\ restarts > 0
    /\ checkpoint_index >= 0
    /\ DOMAIN startup_uncommitted # {}

\* C17: with an empty checkpoints directory Restore absorbs the NotFound of
\* LastCheckpointIndex: unless a file system call itself fails, it returns ok
\* and the write loop starts; the source is not restored, no file of the
\* uncommitted directory is renamed or deleted and chunk_index_ is 0.
FirstRunStartsAtChunkZero ==
    /\ [][(pc = "Restore" /\ DOMAIN checkpoints_dir = {}) =>
            \/ pc' = "ShouldWriteChunk" /\ recovered'
            \/ pc' = "Finish" /\ ret' = FilesystemError]_vars
    /\ [](DOMAIN checkpoints_dir = {} =>
            /\ uncommitted_dir = startup_uncommitted
            /\ commit_events = 0
            /\ iterator_pos = 0
            /\ checkpoint_index = -1
            /\ chunk_index_ = 0
            /\ ret # Internal
            /\ pc \notin {"SyncCheckpointWithChunks", "SyncLoop"})

\* C17 witness: the write loop is about to open chunk_0 on a first run whose
\* uncommitted directory holds files.
FirstRunWitness ==
    /\ DOMAIN checkpoints_dir = {}
    /\ recovered
    /\ pc = "WriteChunk"
    /\ chunk_index_ = 0
    /\ DOMAIN uncommitted_dir # {}

\* ---------------------------------------------------------------------------
\* A writer on a source that never reports its end: the elements of `elements`
\* repeat for ever.  The write loop is followed for MaxChunks chunks; a loop
\* that would begin a later chunk is not followed further.
\* ---------------------------------------------------------------------------

EndlessSizeBytes(position) == elements[((position - 1) % Len(elements)) + 1]

\* WriteRecord when GetNext never sets end_of_sequence_.
WriteRecordEndless ==
    /\ pc = "WriteRecord"
    /\ \/ \* iterator_->GetNext fails
          /\ ReturnError(SourceError)
          /\ UNCHANGED <<uncommitted_dir, iterator_pos, members>>
       \/ \* an element: writer.WriteTensors fails
          /\ iterator_pos' = iterator_pos + 1
          /\ ReturnError(FilesystemError)
          /\ UNCHANGED <<uncommitted_dir, members>>
       \/ \* an element: written
          /\ iterator_pos' = iterator_pos + 1
          /\ uncommitted_dir' =
                [uncommitted_dir EXCEPT ![ChunkFileName(chunk_index_)] =
                    Append(@, iterator_pos + 1)]
          /\ chunk_size_bytes_' =
                chunk_size_bytes_ + EndlessSizeBytes(iterator_pos + 1)
          /\ Goto("ShouldWriteRecord")
          /\ UNCHANGED <<chunk_index_, end_of_sequence_>>
    /\ UNCHANGED <<committed_dir, checkpoints_dir, elements, status_,
                   checkpoint_index, pending, should_save, control, history>>

\* while (ShouldWriteChunk()), followed for MaxChunks chunks.
WriteSnapshotFnLoopEndless ==
    /\ ShouldWriteChunk => chunk_index_ < MaxChunks
    /\ WriteSnapshotFnLoop

\* The steps of the snapshot thread on an endless source.
SnapshotThreadEndless ==
    \/ InitializeDirectories
    \/ Restore
    \/ WriteSnapshotFnLoopEndless
    \/ WriteChunk
    \/ WriteChunkLoop
    \/ WriteRecordEndless
    \/ WriteChunkClose
    \/ CommitChunk
    \/ Save
    \/ DeleteOutdatedCheckpoints
    \/ DeleteCheckpoint
    \/ SaveDone
    \/ RenameChunk
    \/ WriteSnapshotFnReturn
    \/ RunSnapshotThread

InitEndless == Init /\ elements # <<>>

NextEndless == SnapshotThreadEndless \/ Cancel \/ WaitCall \/ Wait

\* Every call of the thread returns and the thread is scheduled; a Wait()
\* whose thread has ended returns.
SpecEndless ==
    /\ InitEndless
    /\ [][NextEndless]_vars
    /\ WF_vars(SnapshotThreadEndless)
    /\ WF_vars(Wait)

\* C18: on a source that never reports its end, once Cancel() has been called
\* the thread eventually ends, so a Wait() blocked at that time eventually
\* returns.
CancelEventuallyHonoured ==
    /\ cancel_returned ~> pc = "Done"
    /\ (cancel_returned /\ waiting) ~> ~waiting

\* C18 witness: a Wait() has returned Cancelled after a Cancel() that came
\* while the thread was writing chunks of a source that has not ended.
CancelEventuallyHonouredWitness ==
    /\ cancel_returned
    /\ pc = "Done"
    /\ ~end_of_sequence_
    /\ chunk_index_ >= 1
    /\ Len(wait_results) > 0
    /\ wait_results[Len(wait_results)] = Cancelled

\* ---------------------------------------------------------------------------
\* The writer that is never cancelled, with its thread scheduled fairly.
\* ---------------------------------------------------------------------------

\* The steps of the snapshot thread.
SnapshotThread ==
    \/ InitializeDirectories
    \/ Restore
    \/ SyncCheckpointWithChunks
    \/ SyncChunk
    \/ RestoreDone
    \/ WriteSnapshotFnLoop
    \/ WriteChunk
    \/ WriteChunkLoop
    \/ WriteRecord
    \/ WriteChunkClose
    \/ CommitChunk
    \/ Save
    \/ DeleteOutdatedCheckpoints
    \/ DeleteCheckpoint
    \/ SaveDone
    \/ RenameChunk
    \/ WriteSnapshotFnReturn
    \/ RunSnapshotThread

\* Crashes and restarts, no Cancel(): the thread's steps and the construction
\* of a new writer.
NextFair == SnapshotThread \/ Restart

SpecFair == Init /\ [][NextFair]_vars /\ WF_vars(SnapshotThread)

RECURSIVE CommittedElements(_)
\* The committed chunks chunk_0 .. chunk_<n-1>, concatenated in index order.
CommittedElements(n) ==
    IF n = 0 THEN <<>>
    ELSE CommittedElements(n - 1) \o committed_dir[ChunkFileName(n - 1)]

\* C19: for a finite source, across any number of crashes and restarts, the
\* thread of the last writer ends; a writer in whose run nothing failed and
\* Cancel() was not called ends with status ok; and whenever a writer has
\* ended with status ok the committed chunks are chunk_0 .. chunk_<n-1> and
\* their concatenation in index order is the source's element sequence, each
\* element once.
CompleteOutput ==
    /\ <>[](pc = "Done")
    /\ []((pc = "Done" /\ ret = OkStatus /\ ~cancel_returned) =>
            status_ = OkStatus)
    /\ []((pc = "Done" /\ status_ = OkStatus) =>
            LET n == Cardinality(DOMAIN committed_dir)
            IN  /\ DOMAIN committed_dir = {ChunkFileName(i) : i \in 0..(n - 1)}
                /\ CommittedElements(n) = [i \in 1..Len(elements) |-> i])

\* C19 witness: a writer restarted after a crash has ended with status ok and
\* several elements in several committed chunks.
CompleteOutputWitness ==
    /\ pc = "Done"
    /\ status_ = OkStatus
    /\ restarts > 0
    /\ Len(elements) >= 2
    /\ Cardinality(DOMAIN committed_dir) >= 2
    /\ DOMAIN startup_uncommitted # {}

\* ---------------------------------------------------------------------------
\* The startup recovery from prepared directories, with crashes: at any point
\* the writer may be lost and a new one constructed on the same directories.
\* ---------------------------------------------------------------------------

\* The writer is lost, at any point and any number of times, and a new one is
\* constructed on the same directories.
RecoveryCrash ==
    /\ pc # "InitializeDirectories"
    /\ iterator_pos' = 0
    /\ chunk_index_' = 0
    /\ chunk_size_bytes_' = 0
    /\ end_of_sequence_' = FALSE
    /\ status_' = OkStatus
    /\ pc' = "InitializeDirectories"
    /\ ret' = OkStatus
    /\ checkpoint_index' = -1
    /\ pending' = {}
    /\ should_save' = FALSE
    /\ recovered' = FALSE
    /\ startup_uncommitted' = uncommitted_dir
    /\ UNCHANGED <<dirs, elements, control, commit_events, restarts, clean>>

\* Directories as a lost writer leaves them: chunk_0 .. chunk_<n-1> committed,
\* any chunk files uncommitted, any checkpoints (several after an interrupted
\* pruning), checkpoint_<i> holding an iterator position.
InitRecoveryCrash ==
    /\ \E n \in 0..(MaxIndex + 1) :
          committed_dir = [c \in {ChunkFileName(i) : i \in 0..(n - 1)} |-> <<>>]
    /\ \E names \in SUBSET {ChunkFileName(i) : i \in 0..MaxIndex} :
          uncommitted_dir = [c \in names |-> <<1>>]
    /\ \E names \in SUBSET {CheckpointPath(i) : i \in 0..MaxIndex} :
          checkpoints_dir = [c \in names |-> <<c.idx>>]
    /\ elements = [i \in 1..MaxElements |-> 1]
    /\ NewWriter
    /\ commit_events = 0
    /\ restarts = 0
    /\ startup_uncommitted = uncommitted_dir
    /\ clean = TRUE

NextRecoveryCrash == NextRecovery \/ RecoveryCrash

SpecRecoveryCrash == InitRecoveryCrash /\ [][NextRecoveryCrash]_vars

\* The committed directory that a recovery from checkpoint_<k>, run without
\* interruption on the present directories, ends with: every uncommitted file
\* whose index is at most k is renamed into it.
Reconciled(k) ==
    LET moved(u) ==
            /\ u \in DOMAIN uncommitted_dir
            /\ GetFileIndex(u, "chunk") >= 0
            /\ GetFileIndex(u, "chunk") <= k
    IN  [c \in DOMAIN committed_dir \cup {u \in DOMAIN uncommitted_dir : moved(u)}
            |-> IF moved(c) THEN uncommitted_dir[c] ELSE committed_dir[c]]

\* Restore has returned ok from checkpoint_<k>, the largest checkpoint index
\* present: the source is at the position of checkpoint_<k>, the uncommitted
\* directory is empty and chunk_index_ = k + 1.
RecoveredFromLastCheckpoint ==
    LET k == LastCheckpointIndex.index
    IN  /\ checkpoint_index = k
        /\ \A c \in DOMAIN checkpoints_dir : GetFileIndex(c, "checkpoint") <= k
        /\ iterator_pos = checkpoints_dir[CheckpointPath(k)][1]
        /\ uncommitted_dir = EmptyDir
        /\ chunk_index_ = k + 1

\* C20: no step of the recovery and no crash during it changes the last
\* checkpoint index k or the committed directory that the recovery ends with;
\* whenever Restore returns ok from a checkpoint, after any number of crashes
\* (older checkpoints left by an interrupted pruning included), it ends in the
\* state of the uninterrupted recovery.
RecoveryIdempotent ==
    [][/\ LastCheckpointIndex' = LastCheckpointIndex
       /\ \A k \in {LastCheckpointIndex.index} : Reconciled(k)' = Reconciled(k)
       /\ (recovered' /\ LastCheckpointIndex.status = OkStatus) =>
             RecoveredFromLastCheckpoint']_vars

\* C20 witness: a recovery that crashed between two renames has been run again
\* to its end, with an older checkpoint still beside the last one.
RecoveryIdempotentWitness ==
    /\ recovered
    /\ commit_events >= 2
    /\ Cardinality(DOMAIN startup_uncommitted) = 1
    /\ Cardinality(DOMAIN checkpoints_dir) >= 2

====
